---- MODULE Spec2Model ----
(***************************************************************************)
(* Session / command state machine of CameETIDomoServer                    *)
(* (came_domotic_unofficial/__init__.py) with the entity model of          *)
(* came_domotic_unofficial/models.py.                                      *)
(*                                                                         *)
(* The facade is synchronous and single threaded.  Every public call is a  *)
(* sequence of steps; a step is either the part of a call that runs        *)
(* without the network (guards, validation, cache hits) or one exchange    *)
(* with the transport (request handed over, response interpreted).  The    *)
(* wall clock (datetime.now) advances between steps.                       *)
(***************************************************************************)
EXTENDS Integers, Sequences, FiniteSets, TLC

\* ------------------------------------------------------------------ bounds
MaxTime == 2        \* the wall clock runs over 0..MaxTime
MaxCseq == 3        \* data requests are issued while cseq stays below this
MaxTtl == 1         \* longest session lifetime granted by a login ack, in ticks
MaxMembers == 3     \* items are added to an entity set while it has fewer members
MaxExcess == 5      \* brightness values run up to this far outside 0 and 100

\* -------------------------------------------------------- program constants
SafetyMargin == 30          \* seconds subtracted from the keep-alive timeout
InitialExpiration == -1     \* datetime(2000, 1, 1): before every clock value

VARIABLES
    now,                            \* datetime.now(timezone.utc)
    session_id,                     \* self._session_id
    session_expiration_timestamp,   \* self._session_expiration_timestamp
    cseq,                           \* self._cseq
    identity,                       \* _keycode, _software_version, _type, _board, _serial_number
    features,                       \* self._features
    entities,                       \* self._entities
    http_closed,                    \* self._http_session has been closed
    pc,                             \* position inside the running call
    op,                             \* the running (or last) public call and its arguments
    ret,                            \* method decorated by ensure_login that waits for _login
    cur,                            \* feature being processed by _fetch_entities_list
    todo,                           \* features still to be iterated
    acc,                            \* local variable `entities` of _fetch_entities_list
    result,                         \* outcome of the last finished call
    sent,                           \* requests handed to the transport by the running call
    ev,                             \* the step just taken
    login_timeout,                  \* sl_keep_alive_timeout_sec of the last accepted login ack
    fetch_failed,                   \* an entity-list request of the running call has failed
    gateway,                        \* the gateway: the features it advertises, its identity
    cmp,                            \* two entities and the outcome of comparing them
    eset,                           \* a CameEntitySet and the item last added to it
    light,                          \* a Light: its brightness and the last operation on it
    trail                           \* the data requests handed over since the last login

vars == <<now, session_id, session_expiration_timestamp, cseq, identity, features,
          entities, http_closed, pc, op, ret, cur, todo, acc, result, sent, ev,
          login_timeout, fetch_failed, gateway, cmp, eset, light, trail>>

session == <<session_id, session_expiration_timestamp, cseq, login_timeout>>
caches == <<identity, features, entities>>
iter == <<cur, todo, acc>>

\* ------------------------------------------------------------ entity model
EntityTypeNames == {"FEATURES", "LIGHTS", "OPENINGS", "DIGITALIN", "SCENARIOS"}

EntityTypeValue(t) ==
    CASE t = "FEATURES" -> "feature_list_req"
      [] t = "LIGHTS" -> "light_list_req"
      [] t = "OPENINGS" -> "openings_list_req"
      [] t = "DIGITALIN" -> "digitalin_list_req"
      [] t = "SCENARIOS" -> "scenarios_list_req"

EntityType2Class(t) ==
    CASE t = "FEATURES" -> "Feature"
      [] t = "LIGHTS" -> "Light"
      [] t = "OPENINGS" -> "Opening"
      [] t = "DIGITALIN" -> "DigitalInput"
      [] t = "SCENARIOS" -> "Scenario"

SwitchClasses == {"Light", "Opening", "Scenario"}

Class2SwitchCommand(c) ==
    CASE c = "Light" -> "light_switch_req"
      [] c = "Opening" -> "opening_move_req"
      [] c = "Scenario" -> "scenario_activation_req"

\* str.upper() on the feature names the gateway can advertise
Upper(name) ==
    CASE name = "features" -> "FEATURES"
      [] name = "lights" -> "LIGHTS"
      [] name = "openings" -> "OPENINGS"
      [] name = "digitalin" -> "DIGITALIN"
      [] name = "scenarios" -> "SCENARIOS"
      [] OTHER -> "ENERGY"

NameHash(name) ==
    CASE name = "features" -> 100
      [] name = "lights" -> 101
      [] name = "openings" -> 102
      [] name = "digitalin" -> 103
      [] name = "scenarios" -> 104
      [] OTHER -> 105

EntityStatusValues == {0, 1, 2, -1, -99}
StatusUnknown == -1
StatusNotApplicable == -99

Feature(name) ==
    [cls |-> "Feature", id |-> NameHash(name), name |-> name, status |-> StatusNotApplicable]

FeaturesSetFromJson(list) == {Feature(list[i]) : i \in 1..Len(list)}

EntityFromJson(cls, item) ==
    [cls |-> cls,
     id |-> item.act_id,
     name |-> IF item.name # "" THEN item.name ELSE "Unknown",
     status |-> IF item.status \in EntityStatusValues THEN item.status ELSE StatusUnknown]

EntitySetFromArray(cls, array) == {EntityFromJson(cls, array[i]) : i \in 1..Len(array)}

Entity(cls, id, name, status) == [cls |-> cls, id |-> id, name |-> name, status |-> status]

\* __repr__: the class name and the fields the class prints, in the order in
\* which they are printed (the fields that the entities of the model do not
\* have, such as light_type, are left out)
Repr(e) ==
    CASE e.cls = "Feature" -> <<e.cls, e.name>>
      [] e.cls = "DigitalInput" -> <<e.cls, e.id, e.name>>
      [] OTHER -> <<e.cls, e.id, e.name, e.status>>

\* faulty variant: the types are not compared
EntityEq_SameRepr(a, b) == Repr(a)[2] = Repr(b)[2] /\ Repr(a)[3] = Repr(b)[3]

\* CameEntity.__eq__
EntityEq(a, b) == a.cls = b.cls /\ Repr(a) = Repr(b)

\* CameEntity.__hash__: the tuple that is hashed
EntityHash(e) == <<e.cls, Repr(e)>>

Comparison(a, b, done, eq, same_hash) ==
    [a |-> a, b |-> b, done |-> done, eq |-> eq, same_hash |-> same_hash]

NoComparison ==
    Comparison(Entity("Light", 1, "A", 0), Entity("Light", 1, "A", 0), FALSE, FALSE, FALSE)

\* ------------------------------------------------------------- the transport
\* A response of the transport: either an exception of the HTTP layer, a
\* status code other than 200, a JSON body without the expected keys, or a
\* JSON body with the keys below.
NoList == <<>>
NoArray == <<>>
NoIdent == ""

Resp(kind, sl_cmd, reason, ack_reason, client_id, timeout, list, array, ident) ==
    [kind |-> kind, sl_cmd |-> sl_cmd, reason |-> reason, ack_reason |-> ack_reason,
     client_id |-> client_id, timeout |-> timeout, list |-> list, array |-> array,
     ident |-> ident]

NoResp == Resp("none", "", 0, 0, "", 0, NoList, NoArray, NoIdent)

TransportFailures ==
    {Resp(k, "", 0, 0, "", 0, NoList, NoArray, NoIdent) :
        k \in {"request_exception", "bad_status", "missing_keys"}}

SessionIds == {"s1", "s2"}
Timeouts == {0, SafetyMargin} \cup {SafetyMargin + d : d \in 1..MaxTtl}

LoginAck(client_id, timeout) ==
    Resp("ok", "sl_registration_ack", 0, 0, client_id, timeout, NoList, NoArray, NoIdent)

\* the acknowledgements of the gateway to a login request of a client whose
\* previous session id was sid: well-formed ones with a fresh client id, and
\* one for each way of being malformed
LoginResponses(sid) ==
    {LoginAck(s, t) : s \in SessionIds \ {sid}, t \in Timeouts \ {0}}
    \cup {[LoginAck("s1", SafetyMargin + 1) EXCEPT !.sl_cmd = "sl_registration_nak"],
          [LoginAck("s1", SafetyMargin + 1) EXCEPT !.reason = 1],
          LoginAck("", SafetyMargin + 1),
          LoginAck("s1", 0)}
    \cup TransportFailures

KeepAliveAck == Resp("ok", "sl_keep_alive_ack", 0, 0, "", 0, NoList, NoArray, NoIdent)

KeepAliveResponses ==
    {KeepAliveAck,
     [KeepAliveAck EXCEPT !.sl_cmd = "sl_keep_alive_nak"],
     [KeepAliveAck EXCEPT !.reason = 1]}
    \cup TransportFailures

LogoutAck == Resp("ok", "sl_logout_ack", 0, 0, "", 0, NoList, NoArray, NoIdent)

LogoutResponses ==
    {LogoutAck,
     [LogoutAck EXCEPT !.sl_cmd = "sl_logout_nak"],
     [LogoutAck EXCEPT !.reason = 1],
     [LogoutAck EXCEPT !.ack_reason = 1]}
    \cup TransportFailures

Gateway(list, ident) == [list |-> list, ident |-> ident]

\* the "list" field of a feature-list response: the names the gateway
\* advertises, or none
FeatureLists == {<<>>, gateway.list}

\* a feature-list response: acknowledged or not, with the identity fields of
\* the gateway, or without its "list" field, or a failure
FeaturesResponses ==
    {Resp("ok", "", r, 0, "", 0, l, NoArray, gateway.ident) : r \in {0, 3}, l \in FeatureLists}
    \cup {Resp("missing_list", "", 0, 0, "", 0, NoList, NoArray, gateway.ident)}
    \cup TransportFailures

\* an acknowledged feature-list response without its "serial" field
PartialResponses ==
    {Resp("missing_serial", "", 0, 0, "", 0, l, NoArray, gateway.ident) : l \in FeatureLists}

Item(id, name, status) == [act_id |-> id, name |-> name, status |-> status]

EntityArrays == {<<>>, <<Item(1, "A", 1)>>}

EntityListResponses ==
    {Resp("ok", "", r, 0, "", 0, NoList, a, NoIdent) : r \in {0, 3}, a \in EntityArrays}
    \cup TransportFailures

GenericResponses ==
    {Resp("ok", "", r, 0, "", 0, NoList, NoArray, NoIdent) : r \in {0, 1}}
    \cup TransportFailures

\* _send_command raises CameDomoticRequestError
RaisesRequestError(resp) == resp.kind \in {"request_exception", "bad_status"}

\* _send_command: a RequestException makes the facade replace its HTTP session
HttpAfterSend(resp) == IF resp.kind = "request_exception" THEN FALSE ELSE http_closed

\* a request: the envelope fields sl_cmd and sl_client_id, and the fields of
\* sl_appl_msg; -1 and "" stand for a field the request does not have
Req(sl_cmd, sl_client_id, cmd_name, seq, client, id, act_id, wanted_status, perc) ==
    [sl_cmd |-> sl_cmd, sl_client_id |-> sl_client_id, cmd_name |-> cmd_name,
     cseq |-> seq, client |-> client, id |-> id, act_id |-> act_id,
     wanted_status |-> wanted_status, perc |-> perc]

LoginRequest == Req("sl_registration_req", "", "", -1, "", -1, -1, -1, -1)
FlatRequest(cmd) == Req(cmd, session_id, "", -1, "", -1, -1, -1, -1)
\* faulty variant: the client field of the request is left empty
DataRequest_NoClient(cmd_name, seq) ==
    Req("sl_data_req", session_id, cmd_name, seq, "", -1, -1, -1, -1)

DataRequest(cmd_name, seq) ==
    Req("sl_data_req", session_id, cmd_name, seq, session_id, -1, -1, -1, -1)

\* --------------------------------------------------------------- the facade
\* faulty variant: the expiration instant itself still counts as authenticated
IsAuthenticatedAt_Inclusive(sid, exp, t) == sid # "" /\ exp >= t

IsAuthenticatedAt(sid, exp, t) == sid # "" /\ exp > t

is_authenticated == IsAuthenticatedAt(session_id, session_expiration_timestamp, now)

NoIdentity ==
    [keycode |-> "", software_version |-> "", server_type |-> "", board |-> "",
     serial_number |-> ""]

Properties == {"keycode", "software_version", "server_type", "board", "serial_number"}

Call(name, entity_type, entity_id, status, brightness, prop) ==
    [name |-> name, entity_type |-> entity_type, entity_id |-> entity_id,
     status |-> status, brightness |-> brightness, prop |-> prop]

NoCall == Call("none", "", -1, -1, -1, "")

Result(kind, set, str, code) == [kind |-> kind, set |-> set, str |-> str, code |-> code]

NoResult == Result("none", {}, "", 0)
ReturnsBool(b) == Result(IF b THEN "True" ELSE "False", {}, "", 0)
ReturnsSet(s) == Result("set", s, "", 0)
ReturnsStr(s) == Result("str", {}, s, 0)
ReturnsNone == Result("None", {}, "", 0)
Raises(exc) == Result(exc, {}, "", 0)
RaisesBadAck(code) == Result("CameDomoticBadAckError", {}, "", code)

Event(kind, resp) == [kind |-> kind, resp |-> resp]

\* a record of the data requests of the session: whether it is kept, the
\* highest cseq that a request has carried, whether the last request was
\* answered with something other than a JSON body with the expected keys, and
\* whether it carried a cseq that an earlier one had carried
Sequence(on, hi, failed, again) == [on |-> on, hi |-> hi, failed |-> failed, again |-> again]

\* the requests are not recorded
NoRequests == Sequence(FALSE, 0, FALSE, FALSE)

\* no data request has been handed over since the last login
Recording == Sequence(TRUE, 0, FALSE, FALSE)

\* the facade as its constructor leaves it
Constructed ==
    /\ now = 0
    /\ session_id = ""
    /\ session_expiration_timestamp = InitialExpiration
    /\ cseq = 0
    /\ identity = NoIdentity
    /\ features = {}
    /\ entities = {}
    /\ http_closed = FALSE
    /\ pc = "idle"
    /\ op = NoCall
    /\ ret = "none"
    /\ cur = ""
    /\ todo = {}
    /\ acc = {}
    /\ result = NoResult
    /\ sent = <<>>
    /\ ev = Event("init", NoResp)
    /\ login_timeout = 0
    /\ fetch_failed = FALSE

\* no comparison of entities is under way
NotComparing == cmp = NoComparison

EntitySet(members, item, raised) == [members |-> members, item |-> item, raised |-> raised]

EmptyEntitySet == EntitySet({}, Entity("Light", 1, "A", 0), "none")

LightObject(brightness, did, arg, raised) ==
    [brightness |-> brightness, did |-> did, arg |-> arg, raised |-> raised]

NoLight == LightObject(100, "none", 100, "none")

\* no object of the entity model is being exercised, no record of the
\* requests is kept
NoObjects == NotComparing /\ eset = EmptyEntitySet /\ light = NoLight /\ trail = NoRequests

\* a gateway with one supported and one unsupported feature
Init == Constructed /\ NoObjects /\ gateway = Gateway(<<"lights", "energy">>, "K1")

\* the clock advances
Tick ==
    /\ now < MaxTime
    /\ now' = now + 1
    /\ ev' = Event("tick", NoResp)
    /\ UNCHANGED <<session, caches, iter, http_closed, pc, op, ret, result, sent,
                   fetch_failed, gateway, cmp, eset, light, trail>>

\* a public call starts
Begin(call) ==
    /\ pc = "idle"
    /\ op' = call
    /\ sent' = <<>>
    /\ ev' = Event("call", NoResp)
    /\ fetch_failed' = FALSE
    /\ UNCHANGED <<now, gateway, cmp, eset, light, trail>>

\* the call finishes with result r
Finish(r) ==
    /\ pc' = "idle"
    /\ ret' = "none"
    /\ result' = r

\* faulty variant: the guard logs in without looking at the session
EnsureLogin_Always(k) ==
    /\ result' = NoResult
    /\ pc' = "login"
    /\ ret' = k

\* ensure_login: run the decorated method k, after _login when not authenticated
EnsureLogin(k) ==
    /\ result' = NoResult
    /\ IF is_authenticated
       THEN pc' = k /\ ret' = "none"
       ELSE pc' = "login" /\ ret' = k

\* property is_authenticated
ReadIsAuthenticated ==
    /\ Begin(Call("is_authenticated", "", -1, -1, -1, ""))
    /\ Finish(ReturnsBool(is_authenticated))
    /\ UNCHANGED <<session, caches, iter, http_closed>>

\* faulty variant: the whole cache is returned whatever the entity type asked for
FilterEntities_NoFilter(entity_type, ents) ==
    IF entity_type # "None" /\ entity_type \notin EntityTypeNames
    THEN Finish(Raises("ValueError"))
    ELSE Finish(ReturnsSet(ents))

\* get_entities, from the return of _fetch_entities_list on: the client-side filter
FilterEntities(entity_type, ents) ==
    IF entity_type = "None"
    THEN Finish(ReturnsSet(ents))
    ELSE IF entity_type \notin EntityTypeNames
         THEN Finish(Raises("ValueError"))
         ELSE Finish(ReturnsSet({e \in ents : e.cls = EntityType2Class(entity_type)}))

\* _fetch_entities_list: the for loop over self._features, entered with the
\* features td still to do and the set ac collected so far
NextFeature(entity_type, td, ac) ==
    IF td = {}
    THEN /\ entities' = ac
         /\ cur' = ""
         /\ todo' = {}
         /\ acc' = {}
         /\ FilterEntities(entity_type, ac)
    ELSE \E f \in td :
            /\ cur' = f.name
            /\ todo' = td \ {f}
            /\ acc' = ac
            /\ entities' = entities
            /\ EnsureLogin("entity_list")

\* faulty variant: get_features fetches without looking at its cache
GetFeatures_NoCache ==
    /\ Begin(Call("get_features", "", -1, -1, -1, ""))
    /\ cseq < MaxCseq
    /\ EnsureLogin("features")
    /\ UNCHANGED <<session, caches, iter, http_closed>>

\* get_features
GetFeatures ==
    /\ Begin(Call("get_features", "", -1, -1, -1, ""))
    /\ cseq < MaxCseq
    /\ IF features # {}
       THEN Finish(ReturnsSet(features))
       ELSE EnsureLogin("features")
    /\ UNCHANGED <<session, caches, iter, http_closed>>

ReadProperties == {"keycode", "serial_number"}

\* faulty variant: a property read fetches without looking at its field
ReadProperty_NoCache ==
    \E p \in ReadProperties :
        /\ Begin(Call("property", "", -1, -1, -1, p))
        /\ cseq < MaxCseq
        /\ EnsureLogin("features")
        /\ UNCHANGED <<session, caches, iter, http_closed>>

\* the properties keycode, software_version, server_type, board, serial_number
ReadProperty ==
    \E p \in ReadProperties :
        /\ Begin(Call("property", "", -1, -1, -1, p))
        /\ cseq < MaxCseq
        /\ IF identity[p] # ""
           THEN Finish(ReturnsStr(identity[p]))
           ELSE EnsureLogin("features")
        /\ UNCHANGED <<session, caches, iter, http_closed>>

GetEntitiesTypes == {"None", "LIGHTS", "THERMO"}

\* get_entities
GetEntities ==
    \E t \in GetEntitiesTypes :
        /\ Begin(Call("get_entities", t, -1, -1, -1, ""))
        /\ entities # {} \/ cseq + 1 + Cardinality(features) <= MaxCseq
        /\ IF entities # {}
           THEN FilterEntities(t, entities) /\ UNCHANGED <<entities, iter>>
           ELSE IF features = {}
                THEN EnsureLogin("features") /\ UNCHANGED <<entities, iter>>
                ELSE NextFeature(t, features, {})
        /\ UNCHANGED <<session, identity, features, http_closed>>

SetStatusClasses == {"Light", "Opening", "DigitalInput"}
SetStatusIds == {1}
SetStatusValues == {1}
SetStatusBrightness == {50}

\* set_entity_status called with the arguments c, i, s, b, up to the return of
\* the ensure_login guard
SetEntityStatusCall(c, i, s, b) ==
    /\ Begin(Call("set_entity_status", c, i, s, b, ""))
    /\ cseq < MaxCseq
    /\ EnsureLogin("set_status")
    /\ UNCHANGED <<session, caches, iter, http_closed>>

\* set_entity_status with well-typed arguments
SetEntityStatus ==
    \E c \in SetStatusClasses, i \in SetStatusIds, s \in SetStatusValues,
       b \in SetStatusBrightness :
        SetEntityStatusCall(c, i, s, b)

\* Python arguments that are not integers, coded by numbers outside every
\* range used for integers
NoneValue == -1000          \* None
StrValue == 1000            \* a str object such as "invalid_id"

AnyClasses == {"Light", "Opening", "Scenario", "DigitalInput"}
AnyIds == {1, StrValue}
AnyStatuses == {1, StrValue}
AnyBrightness == {NoneValue, -5, 50, 100, 150, StrValue}     \* 100: the default of the parameter

\* set_entity_status with arguments of any kind
SetEntityStatusAny ==
    \E c \in AnyClasses, i \in AnyIds, s \in AnyStatuses, b \in AnyBrightness :
        SetEntityStatusCall(c, i, s, b)

\* faulty variant: keep_alive sends its request whatever the session state
KeepAlive_NoGuard ==
    /\ Begin(Call("keep_alive", "", -1, -1, -1, ""))
    /\ pc' = "keep_alive" /\ ret' = "none" /\ result' = NoResult
    /\ UNCHANGED <<session, caches, iter, http_closed>>

\* keep_alive, up to the request
KeepAlive ==
    /\ Begin(Call("keep_alive", "", -1, -1, -1, ""))
    /\ IF ~is_authenticated
       THEN Finish(ReturnsBool(FALSE))
       ELSE pc' = "keep_alive" /\ ret' = "none" /\ result' = NoResult
    /\ UNCHANGED <<session, caches, iter, http_closed>>

\* faulty variant: dispose sends the logout request whatever the session state
Dispose_AlwaysLogout ==
    /\ Begin(Call("dispose", "", -1, -1, -1, ""))
    /\ pc' = "logout" /\ ret' = "none" /\ result' = NoResult /\ UNCHANGED http_closed
    /\ UNCHANGED <<session, caches, iter>>

\* dispose, up to the logout request
Dispose ==
    /\ Begin(Call("dispose", "", -1, -1, -1, ""))
    /\ IF is_authenticated
       THEN pc' = "logout" /\ ret' = "none" /\ result' = NoResult /\ UNCHANGED http_closed
       ELSE http_closed' = TRUE /\ Finish(ReturnsNone)
    /\ UNCHANGED <<session, caches, iter>>

\* faulty variant: _logout sends its request whatever the session state
Logout_NoGuard ==
    /\ Begin(Call("_logout", "", -1, -1, -1, ""))
    /\ pc' = "logout" /\ ret' = "none" /\ result' = NoResult
    /\ UNCHANGED <<session, caches, iter, http_closed>>

\* _logout, up to the logout request
Logout ==
    /\ Begin(Call("_logout", "", -1, -1, -1, ""))
    /\ IF ~is_authenticated
       THEN Finish(ReturnsBool(TRUE))
       ELSE pc' = "logout" /\ ret' = "none" /\ result' = NoResult
    /\ UNCHANGED <<session, caches, iter, http_closed>>

\* _fetch_entities_list_by_feature: the response passes the sl_data_ack_reason test
EntityListSucceeded(resp) == resp.kind = "ok" /\ resp.reason = 0

\* faulty variant: the ack reason is not looked at
LoginAccepted_IgnoresReason(resp) ==
    /\ resp.kind = "ok"
    /\ resp.sl_cmd = "sl_registration_ack"
    /\ Len(resp.client_id) > 0
    /\ resp.timeout > 0

\* _login: the acknowledgement is accepted
LoginAccepted(resp) ==
    /\ resp.kind = "ok"
    /\ resp.sl_cmd = "sl_registration_ack"
    /\ resp.reason = 0
    /\ Len(resp.client_id) > 0
    /\ resp.timeout > 0

DataExchanges == {"features", "entity_list", "set_status"}

\* the record of the data requests after an exchange
SequenceAfter(kind, request, resp) ==
    IF ~trail.on THEN trail
    ELSE IF kind \in DataExchanges
    THEN Sequence(TRUE, IF request.cseq > trail.hi THEN request.cseq ELSE trail.hi,
                  resp.kind # "ok", request.cseq = trail.hi)
    ELSE IF kind = "login" /\ LoginAccepted(resp) THEN Recording ELSE trail

\* one exchange with the transport has taken place
Exchange(kind, request, resp) ==
    /\ sent' = Append(sent, request)
    /\ ev' = Event(kind, resp)
    /\ fetch_failed' = (fetch_failed \/ (kind = "entity_list" /\ ~EntityListSucceeded(resp)))
    /\ trail' = SequenceAfter(kind, request, resp)
    /\ UNCHANGED <<now, op, gateway, cmp, eset, light>>

\* faulty variant: the client id of the response is stored before it is validated
LoginSessionId_Unconditional(resp) == IF resp.kind = "ok" THEN resp.client_id ELSE session_id

\* _login: self._session_id after the exchange
LoginSessionId(resp) == IF LoginAccepted(resp) THEN resp.client_id ELSE session_id

\* _login: self._session_expiration_timestamp after the exchange
LoginExpiration(resp) ==
    IF LoginAccepted(resp)
    THEN now + (resp.timeout - SafetyMargin)
    ELSE session_expiration_timestamp

\* _login: self._cseq after the exchange
LoginCseq(resp) == IF LoginAccepted(resp) THEN 0 ELSE cseq

\* faulty variant: an advisory operation turns the failed login into a False result
LoginFailure_Swallowed(k) ==
    IF k = "set_status" THEN ReturnsBool(FALSE) ELSE Raises("CameDomoticAuthError")

\* ensure_login: the outcome of the decorated method k when _login failed
LoginFailure(k) == Raises("CameDomoticAuthError")

\* _login called by ensure_login: the exchange and what ensure_login does with its result
LoginStep ==
    /\ pc = "login"
    /\ \E resp \in LoginResponses(session_id) :
        /\ Exchange("login", LoginRequest, resp)
        /\ http_closed' = HttpAfterSend(resp)
        /\ session_id' = LoginSessionId(resp)
        /\ session_expiration_timestamp' = LoginExpiration(resp)
        /\ cseq' = LoginCseq(resp)
        /\ login_timeout' = IF LoginAccepted(resp) THEN resp.timeout ELSE login_timeout
        /\ IF LoginAccepted(resp)
           THEN pc' = ret /\ ret' = "none" /\ result' = NoResult
           ELSE Finish(LoginFailure(ret))
    /\ UNCHANGED <<caches, iter>>

IdentityOf(resp) ==
    [keycode |-> resp.ident, software_version |-> resp.ident, server_type |-> resp.ident,
     board |-> resp.ident, serial_number |-> resp.ident]

\* _fetch_features_list: the response passes the sl_data_ack_reason test
FeaturesAcknowledged(resp) ==
    resp.kind \in {"ok", "missing_list", "missing_serial"} /\ resp.reason = 0

\* _fetch_features_list: the whole try block ran
FeaturesSucceeded(resp) == resp.kind = "ok" /\ resp.reason = 0

\* _fetch_features_list: the sequence counter after the exchange
FeaturesCseq(resp) ==
    IF RaisesRequestError(resp) \/ resp.kind \in {"missing_keys", "missing_list", "missing_serial"}
    THEN cseq
    ELSE cseq + 1

\* _fetch_features_list: the identity fields after the exchange, assigned one
\* by one in the order keycode, swver, type, board, serial
FeaturesIdentity(resp) ==
    IF ~FeaturesAcknowledged(resp) THEN identity
    ELSE IF resp.kind = "missing_serial"
    THEN [IdentityOf(resp) EXCEPT !.serial_number = identity.serial_number]
    ELSE IdentityOf(resp)

\* faulty variant: the list is cached before the ack reason is looked at
FeaturesCache_BeforeCheck(resp) ==
    IF resp.kind = "ok" THEN FeaturesSetFromJson(resp.list) ELSE features

\* _fetch_features_list: self._features after the exchange
FeaturesCache(resp) ==
    IF FeaturesSucceeded(resp) THEN FeaturesSetFromJson(resp.list) ELSE features

\* faulty variant: the bad acknowledgement is wrapped like any other exception
FeaturesFailure_Wrapped(resp) == Raises("CameDomoticRequestError")

\* _fetch_features_list: the exception raised for a response that is not a success
FeaturesFailure(resp) ==
    IF resp.kind = "ok"
    THEN RaisesBadAck(resp.reason)
    ELSE Raises("CameDomoticRequestError")

\* _fetch_features_list, the decorated body, for the responses the transport
\* may give
FeaturesStepOn(responses) ==
    /\ pc = "features"
    /\ \E resp \in responses :
        /\ Exchange("features", DataRequest("feature_list_req", cseq + 1), resp)
        /\ http_closed' = HttpAfterSend(resp)
        /\ cseq' = FeaturesCseq(resp)
        /\ UNCHANGED <<session_id, session_expiration_timestamp, login_timeout>>
        /\ identity' = FeaturesIdentity(resp)
        /\ features' = FeaturesCache(resp)
        /\ IF FeaturesSucceeded(resp)
           THEN /\ CASE op.name = "get_features" ->
                            Finish(ReturnsSet(features')) /\ UNCHANGED <<entities, iter>>
                     [] op.name = "property" ->
                            Finish(ReturnsStr(identity'[op.prop])) /\ UNCHANGED <<entities, iter>>
                     [] op.name = "get_entities" ->
                            NextFeature(op.entity_type, features', {})
           ELSE /\ UNCHANGED <<entities, iter>>
                /\ Finish(FeaturesFailure(resp))

FeaturesStep == FeaturesStepOn(FeaturesResponses)

\* _fetch_entities_list_by_feature: the feature maps to an entity-list command
Listable(name) == Upper(name) \in {"LIGHTS", "OPENINGS", "DIGITALIN", "SCENARIOS"}

\* faulty variant: every array is converted with the class of the lights
EntitiesOf_WrongClass(name, resp) ==
    IF EntityListSucceeded(resp) THEN EntitySetFromArray("Light", resp.array) ELSE {}

\* _fetch_entities_list_by_feature: the set returned for a response
EntitiesOf(name, resp) ==
    IF EntityListSucceeded(resp)
    THEN EntitySetFromArray(EntityType2Class(Upper(name)), resp.array)
    ELSE {}

\* _fetch_entities_list_by_feature: self._cseq after the exchange (no handler rolls it back)
EntityListCseq(resp) == cseq + 1

\* _fetch_entities_list_by_feature, the decorated body, and the loop that called it
EntityListStep ==
    /\ pc = "entity_list"
    /\ UNCHANGED <<session_id, session_expiration_timestamp, login_timeout, identity, features>>
    /\ IF ~Listable(cur)
       THEN /\ NextFeature(op.entity_type, todo, acc)
            /\ ev' = Event("entity_skip", NoResp)
            /\ UNCHANGED <<now, op, sent, cseq, http_closed, fetch_failed, gateway, cmp,
                           eset, light, trail>>
       ELSE \E resp \in EntityListResponses :
            /\ Exchange("entity_list", DataRequest(EntityTypeValue(Upper(cur)), cseq + 1), resp)
            /\ http_closed' = HttpAfterSend(resp)
            /\ cseq' = EntityListCseq(resp)
            /\ NextFeature(op.entity_type, todo, acc \cup EntitiesOf(cur, resp))

DefaultBrightness == 100     \* Light._DEFAULT_BRIGHTNESS

\* faulty variant: the brightness is sent as it was given
Perc_NoClamp(cls, brightness) ==
    IF cls = "Light" /\ brightness = NoneValue THEN DefaultBrightness ELSE brightness

\* set_entity_status: the perc field
Perc(cls, brightness) ==
    IF cls = "Light"
    THEN IF brightness = NoneValue
         THEN DefaultBrightness
         ELSE IF brightness < 0 THEN 0 ELSE IF brightness > 100 THEN 100 ELSE brightness
    ELSE brightness

\* faulty variant: the target is written to the id field only
SetStatusRequest_IdOnly ==
    [DataRequest(Class2SwitchCommand(op.entity_type), cseq + 1) EXCEPT
        !.id = op.entity_id, !.wanted_status = op.status,
        !.perc = Perc(op.entity_type, op.brightness)]

\* set_entity_status: the request
SetStatusRequest ==
    [DataRequest(Class2SwitchCommand(op.entity_type), cseq + 1) EXCEPT
        !.id = op.entity_id, !.act_id = op.entity_id, !.wanted_status = op.status,
        !.perc = Perc(op.entity_type, op.brightness)]

\* set_entity_status: the exception raised before the request is handed over:
\* a str brightness compared with 0 for a Light, the value attribute of a
\* str status
SetStatusError ==
    IF op.entity_type = "Light" /\ op.brightness = StrValue
    THEN "TypeError"
    ELSE IF op.status = StrValue THEN "AttributeError" ELSE "none"

\* faulty variant: the sequence counter is put back after every exchange
SetStatusCseq_AlwaysBack(resp) == cseq

\* set_entity_status: the sequence counter after the exchange
SetStatusCseq(resp) ==
    IF RaisesRequestError(resp) \/ resp.kind = "missing_keys" THEN cseq ELSE cseq + 1

\* faulty variant: a transport failure is not caught
SetStatusResult_Propagates(resp) ==
    IF RaisesRequestError(resp)
    THEN Raises("CameDomoticRequestError")
    ELSE ReturnsBool(resp.kind = "ok" /\ resp.reason = 0)

\* set_entity_status: the outcome for a response
SetStatusResult(resp) == ReturnsBool(resp.kind = "ok" /\ resp.reason = 0)

\* faulty variant: an accepted change is written to the cached entity
SetStatusEntities_Written(resp) ==
    IF resp.kind = "ok" /\ resp.reason = 0
    THEN {IF e.cls = op.entity_type /\ e.id = op.entity_id
          THEN Entity(e.cls, e.id, e.name, op.status)
          ELSE e : e \in entities}
    ELSE entities

\* set_entity_status: the entity cache after the exchange
SetStatusEntities(resp) == entities

\* set_entity_status, the decorated body
SetStatusStep ==
    /\ pc = "set_status"
    /\ UNCHANGED <<session_id, session_expiration_timestamp, login_timeout, features,
                   identity, iter>>
    /\ IF op.entity_type \notin SwitchClasses
       THEN /\ Finish(ReturnsBool(FALSE))
            /\ ev' = Event("set_status_skip", NoResp)
            /\ UNCHANGED <<entities, now, op, sent, cseq, http_closed, fetch_failed, gateway, cmp,
                           eset, light, trail>>
       ELSE IF SetStatusError # "none"
            THEN /\ Finish(Raises(SetStatusError))
                 /\ ev' = Event("set_status_error", NoResp)
                 /\ cseq' = IF SetStatusError = "AttributeError" THEN cseq + 1 ELSE cseq
                 /\ UNCHANGED <<entities, now, op, sent, http_closed, fetch_failed, gateway, cmp,
                                eset, light, trail>>
            ELSE \E resp \in GenericResponses :
                 /\ Exchange("set_status", SetStatusRequest, resp)
                 /\ http_closed' = HttpAfterSend(resp)
                 /\ cseq' = SetStatusCseq(resp)
                 /\ entities' = SetStatusEntities(resp)
                 /\ Finish(SetStatusResult(resp))

\* keep_alive: the acknowledgement is accepted
KeepAliveAccepted(resp) ==
    resp.kind = "ok" /\ resp.sl_cmd = "sl_keep_alive_ack" /\ resp.reason = 0

\* keep_alive: self._session_expiration_timestamp after the exchange
KeepAliveExpiration(resp) == session_expiration_timestamp

\* keep_alive: the outcome for a response
KeepAliveResult(resp) == ReturnsBool(KeepAliveAccepted(resp))

\* keep_alive, from the request on
KeepAliveStep ==
    /\ pc = "keep_alive"
    /\ \E resp \in KeepAliveResponses :
        /\ Exchange("keep_alive", FlatRequest("sl_keep_alive_req"), resp)
        /\ http_closed' = HttpAfterSend(resp)
        /\ session_expiration_timestamp' = KeepAliveExpiration(resp)
        /\ Finish(KeepAliveResult(resp))
    /\ UNCHANGED <<session_id, cseq, login_timeout, caches, iter>>

\* _logout: the acknowledgement is accepted
LogoutAccepted(resp) ==
    /\ resp.kind = "ok"
    /\ resp.sl_cmd = "sl_logout_ack"
    /\ resp.ack_reason = 0
    /\ resp.reason = 0

\* faulty variant: the session is reset whatever the gateway answered
LogoutSessionId_Unconditional(resp) == ""

\* _logout: self._session_id after the exchange
LogoutSessionId(resp) == IF LogoutAccepted(resp) THEN "" ELSE session_id

\* faulty variant: only the session id is reset
LogoutExpiration_Unchanged(resp) == session_expiration_timestamp

\* _logout: self._session_expiration_timestamp after the exchange
LogoutExpiration(resp) == IF LogoutAccepted(resp) THEN now ELSE session_expiration_timestamp

\* faulty variant: a failure of the transport is not caught
LogoutResult_Raises(resp) ==
    IF RaisesRequestError(resp)
    THEN Raises("CameDomoticRequestError")
    ELSE ReturnsBool(LogoutAccepted(resp))

\* _logout: the outcome for a response
LogoutResult(resp) == ReturnsBool(LogoutAccepted(resp))

\* _logout from the request on, and the rest of dispose when dispose called it
LogoutStep ==
    /\ pc = "logout"
    /\ \E resp \in LogoutResponses :
        /\ Exchange("logout", FlatRequest("sl_logout_req"), resp)
        /\ session_id' = LogoutSessionId(resp)
        /\ session_expiration_timestamp' = LogoutExpiration(resp)
        /\ IF op.name = "dispose"
           THEN http_closed' = TRUE /\ Finish(ReturnsNone)
           ELSE http_closed' = HttpAfterSend(resp) /\ Finish(LogoutResult(resp))
    /\ UNCHANGED <<cseq, login_timeout, caches, iter>>

Next ==
    \/ Tick
    \/ ReadIsAuthenticated
    \/ GetFeatures
    \/ ReadProperty
    \/ GetEntities
    \/ SetEntityStatus
    \/ KeepAlive
    \/ Dispose
    \/ Logout
    \/ LoginStep
    \/ FeaturesStep
    \/ EntityListStep
    \/ SetStatusStep
    \/ KeepAliveStep
    \/ LogoutStep

Spec == Init /\ [][Next]_vars

GatewayIdents == {"K1", ""}

\* a gateway with two supported features, whose identity fields are filled or empty
InitFetch ==
    /\ Constructed
    /\ NoObjects
    /\ \E k \in GatewayIdents : gateway = Gateway(<<"lights", "openings">>, k)

\* the operations that read the gateway's features, identity and entities
NextFetch ==
    \/ Tick
    \/ GetFeatures
    \/ ReadProperty
    \/ GetEntities
    \/ LoginStep
    \/ FeaturesStep
    \/ EntityListStep

SpecFetch == InitFetch /\ [][NextFetch]_vars

\* a gateway with two supported features and one unsupported feature
InitEndToEnd == Constructed /\ NoObjects /\ gateway = Gateway(<<"lights", "openings", "energy">>, "K1")

\* get_entities() on the facade as constructed
FirstGetEntities ==
    /\ session_id = "" /\ features = {} /\ entities = {}
    /\ GetEntities
    /\ op'.entity_type = "None"

\* one get_entities() call on a freshly constructed facade, every request of
\* which the transport answers successfully
NextEndToEnd ==
    \/ Tick
    \/ FirstGetEntities
    \/ LoginStep /\ LoginAccepted(ev'.resp)
    \/ FeaturesStep /\ FeaturesSucceeded(ev'.resp)
    \/ EntityListStep /\ (ev'.kind = "entity_skip" \/ EntityListSucceeded(ev'.resp))

SpecEndToEnd == InitEndToEnd /\ [][NextEndToEnd]_vars

\* the calls of set_entity_status, with arguments of any kind
NextSetStatus ==
    \/ Tick
    \/ SetEntityStatusAny
    \/ LoginStep
    \/ SetStatusStep

SpecSetStatus == Init /\ [][NextSetStatus]_vars

\* the end of a session: _logout and dispose, and an authenticated operation
\* that opens the session
NextTeardown ==
    \/ Tick
    \/ SetEntityStatus
    \/ Logout
    \/ Dispose
    \/ LoginStep
    \/ SetStatusStep
    \/ LogoutStep

SpecTeardown == Init /\ [][NextTeardown]_vars

\* reads of the identity properties
NextProperty ==
    \/ Tick
    \/ ReadProperty
    \/ LoginStep
    \/ FeaturesStep

SpecProperty == InitFetch /\ [][NextProperty]_vars

SampleClasses == {"Light", "Opening", "Scenario", "DigitalInput"}
SampleIds == {1, 2}
SampleNames == {"A", "B"}
SampleStatuses == {0, 1}

SampleEntities ==
    {Entity(c, i, n, s) : c \in SampleClasses, i \in SampleIds, n \in SampleNames,
                          s \in SampleStatuses}

\* two entities have been constructed
InitEntity ==
    /\ Constructed
    /\ gateway = Gateway(<<"lights", "energy">>, "K1")
    /\ eset = EmptyEntitySet
    /\ light = NoLight
    /\ trail = NoRequests
    /\ \E a \in SampleEntities, b \in SampleEntities :
            cmp = Comparison(a, b, FALSE, FALSE, FALSE)

\* a == b and hash(a) == hash(b) are evaluated
Compare ==
    /\ ~cmp.done
    /\ cmp' = Comparison(cmp.a, cmp.b, TRUE, EntityEq(cmp.a, cmp.b),
                         EntityHash(cmp.a) = EntityHash(cmp.b))
    /\ UNCHANGED <<now, session, caches, iter, http_closed, pc, op, ret, result, sent, ev,
                   fetch_failed, gateway, eset, light, trail>>

NextEntity == Compare

SpecEntity == InitEntity /\ [][NextEntity]_vars

\* set_entity_status(Light, 1, EntityStatus.OFF_STOPPED, brightness=50)
SetEntityStatusOff == SetEntityStatusCall("Light", 1, 0, 50)

\* the entity cache is filled and lights are switched off
NextCache ==
    \/ Tick
    \/ GetEntities
    \/ SetEntityStatusOff
    \/ LoginStep
    \/ FeaturesStep
    \/ EntityListStep
    \/ SetStatusStep

SpecCache == Init /\ [][NextCache]_vars

\* feature fetches answered by a gateway that may leave a field out
NextIdentity ==
    \/ Tick
    \/ GetFeatures
    \/ ReadProperty
    \/ LoginStep
    \/ FeaturesStepOn(FeaturesResponses \cup PartialResponses)

SpecIdentity == InitFetch /\ [][NextIdentity]_vars

\* set_entity_status for a light, with a status that is an EntityStatus or a string
SetEntityStatusLoose ==
    \E s \in AnyStatuses : SetEntityStatusCall("Light", 1, s, NoneValue)

\* the facade as constructed, the data requests it sends being recorded
InitSequence ==
    /\ Constructed
    /\ NotComparing /\ eset = EmptyEntitySet /\ light = NoLight
    /\ trail = Recording
    /\ gateway = Gateway(<<"lights", "energy">>, "K1")

\* the operations that send data requests
NextSequence ==
    \/ Tick
    \/ GetFeatures
    \/ GetEntities
    \/ SetEntityStatusLoose
    \/ LoginStep
    \/ FeaturesStep
    \/ EntityListStep
    \/ SetStatusStep

SpecSequence == InitSequence /\ [][NextSequence]_vars

\* what is passed to CameEntitySet.add: entities of two classes, one of which
\* prints its status, and a value that is not an entity
AddedClasses == {"Light", "DigitalInput", "NotAnEntity"}

AddedItems ==
    {Entity(c, i, n, s) : c \in AddedClasses, i \in SampleIds, n \in SampleNames,
                          s \in SampleStatuses}

IsCameEntity(item) == item.cls # "NotAnEntity"

\* faulty variant: the item is stored without looking for an equal member
SetAdd_Always(members, item) == members \cup {item}

\* set.add: the item is stored unless a member with the same hash compares
\* equal to it
SetAdd(members, item) ==
    IF \E x \in members : EntityHash(x) = EntityHash(item) /\ EntityEq(x, item)
    THEN members
    ELSE members \cup {item}

\* an empty CameEntitySet has been constructed
InitEntitySet ==
    /\ Constructed
    /\ gateway = Gateway(<<"lights", "energy">>, "K1")
    /\ NoObjects

\* CameEntitySet.add(item)
AddEntity ==
    /\ Cardinality(eset.members) < MaxMembers
    /\ \E item \in AddedItems :
            eset' = IF IsCameEntity(item)
                    THEN EntitySet(SetAdd(eset.members, item), item, "none")
                    ELSE EntitySet(eset.members, item, "TypeError")
    /\ UNCHANGED <<now, session, caches, iter, http_closed, pc, op, ret, result, sent, ev,
                   fetch_failed, gateway, cmp, light, trail>>

NextEntitySet == AddEntity

SpecEntitySet == InitEntitySet /\ [][NextEntitySet]_vars

\* what is passed as brightness: None, a string, and integers around both
\* ends of the range and inside it
BrightnessValues ==
    {NoneValue, StrValue, 50} \cup (-MaxExcess .. MaxExcess)
                              \cup ((100 - MaxExcess) .. (100 + MaxExcess))

\* faulty variant: the constructor stores the brightness as given
InitialBrightness_NoClamp(brightness) ==
    IF brightness = NoneValue THEN 100 ELSE brightness

\* the brightness stored by Light.__init__
InitialBrightness(brightness) ==
    IF brightness = NoneValue \/ brightness > 100 THEN 100
    ELSE IF brightness < 0 THEN 0 ELSE brightness

\* what Light.__init__ raises
LightInitError(brightness) == IF brightness = StrValue THEN "TypeError" ELSE "none"

\* what the brightness setter raises: None and integers out of range are
\* refused, a string cannot be compared with 0
LightSetError(value) ==
    IF value = NoneValue THEN "ValueError"
    ELSE IF value = StrValue THEN "TypeError"
    ELSE IF value < 0 \/ value > 100 THEN "ValueError" ELSE "none"

\* a Light exists: the constructor has returned
LightExists == light.did = "set" \/ (light.did = "init" /\ light.raised = "none")

\* no Light has been constructed yet
InitLight ==
    /\ Constructed
    /\ gateway = Gateway(<<"lights", "energy">>, "K1")
    /\ NoObjects

\* Light(entity_id, name, brightness=b)
NewLight ==
    /\ \E b \in BrightnessValues :
            light' = IF LightInitError(b) = "none"
                     THEN LightObject(InitialBrightness(b), "init", b, "none")
                     ELSE LightObject(light.brightness, "init", b, LightInitError(b))
    /\ UNCHANGED <<now, session, caches, iter, http_closed, pc, op, ret, result, sent, ev,
                   fetch_failed, gateway, cmp, eset, trail>>

\* light.brightness = value
SetBrightness ==
    /\ LightExists
    /\ \E value \in BrightnessValues :
            light' = IF LightSetError(value) = "none"
                     THEN LightObject(value, "set", value, "none")
                     ELSE LightObject(light.brightness, "set", value, LightSetError(value))
    /\ UNCHANGED <<now, session, caches, iter, http_closed, pc, op, ret, result, sent, ev,
                   fetch_failed, gateway, cmp, eset, trail>>

NextLight == NewLight \/ SetBrightness

SpecLight == InitLight /\ [][NextLight]_vars

\* ------------------------------------------------------------------ claims
\* the login acknowledgement is structurally valid
StructurallyValid(resp) ==
    /\ resp.kind = "ok"
    /\ resp.sl_cmd = "sl_registration_ack"
    /\ resp.reason = 0
    /\ resp.client_id # ""
    /\ resp.timeout > 0

DataSteps == {"features", "entity_list", "set_status"}

LoginsIn(s) == Cardinality({i \in 1..Len(s) : s[i].sl_cmd = "sl_registration_req"})

\* C1: while the session has not expired no operation hands a login request
\* to the transport: every login exchange starts from a state in which
\* is_authenticated is false, so the login of an earlier operation stays the
\* only one until the session expires or is closed.
C1_IdempotentAuthentication ==
    [][(ev'.kind = "login" \/ LoginsIn(sent') > LoginsIn(sent)) =>
        ~(session_id # "" /\ now < session_expiration_timestamp)]_vars

\* an authenticated operation has run to its end on a live session and has
\* handed data requests, but no login request, to the transport
C1_Witness ==
    /\ pc = "idle"
    /\ op.name = "get_entities"
    /\ is_authenticated
    /\ Len(sent) >= 2
    /\ LoginsIn(sent) = 0
    /\ result.kind = "set"

C3_ValidAckAuthenticates ==
    (ev.kind = "login" /\ StructurallyValid(ev.resp)) =>
        (session_id = ev.resp.client_id /\ is_authenticated)

\* C4: a login acknowledgement that breaks one of the four validity conditions
\* leaves the session unauthenticated and the operation fails with an
\* authentication error.
C4_InvalidAckNeverAuthenticates ==
    (ev.kind = "login" /\ ev.resp.kind = "ok" /\ ~StructurallyValid(ev.resp)) =>
        (~is_authenticated /\ pc = "idle" /\ result.kind = "CameDomoticAuthError")

C4_Witness ==
    /\ ev.kind = "login"
    /\ ev.resp.kind = "ok"
    /\ ev.resp.sl_cmd = "sl_registration_ack"
    /\ ev.resp.client_id # ""
    /\ ev.resp.timeout > 0
    /\ ev.resp.reason # 0
    /\ result.kind = "CameDomoticAuthError"

C6_SessionStateMachine ==
    /\ ~is_authenticated
    /\ [][/\ (~is_authenticated /\ is_authenticated') =>
                (ev'.kind = "login" /\ StructurallyValid(ev'.resp))
          /\ (is_authenticated /\ ~is_authenticated') =>
                \/ ev'.kind = "tick"
                \/ /\ ev'.kind = "logout"
                   /\ ev'.resp.kind = "ok"
                   /\ ev'.resp.sl_cmd = "sl_logout_ack"
                   /\ ev'.resp.reason = 0
                   /\ ev'.resp.ack_reason = 0]_vars

C6_Witness ==
    /\ ev.kind = "logout"
    /\ ev.resp.kind = "ok"
    /\ ev.resp.reason # 0
    /\ is_authenticated

\* C7: a data request issued on an authenticated session leaves the sequence
\* counter at its previous value when the send fails and one above it when
\* the send succeeds.
C7_SequenceRollback ==
    [][(ev'.kind \in DataSteps /\ is_authenticated
            /\ ev'.resp.kind \notin {"missing_keys", "missing_list"}) =>
        cseq' = (IF RaisesRequestError(ev'.resp) THEN cseq ELSE cseq + 1)]_vars

C9_KeepAliveExtendsExpiry ==
    (ev.kind = "keep_alive" /\ ev.resp.kind = "ok"
        /\ ev.resp.sl_cmd = "sl_keep_alive_ack" /\ ev.resp.reason = 0) =>
        session_expiration_timestamp = now + login_timeout

\* the request of an advisory operation failed
FailedFollowUp(resp) ==
    \/ resp.kind \in {"request_exception", "bad_status", "missing_keys"}
    \/ resp.kind = "ok" /\ resp.reason # 0

\* C10: when the request of set_entity_status or keep_alive fails at the
\* transport, is answered with a non-zero ack reason or with a body lacking
\* the expected keys, the operation returns false.
C10_AdvisoryReturnsFalse ==
    (ev.kind \in {"set_status", "keep_alive"} /\ FailedFollowUp(ev.resp)) =>
        (pc = "idle" /\ result.kind = "False")

C10_Witness ==
    /\ ev.kind = "set_status"
    /\ ev.resp.kind = "request_exception"
    /\ is_authenticated
    /\ result.kind = "False"

\* the requests of the running call that are data requests
DataRequestsIn(s) == {i \in 1..Len(s) : s[i].sl_cmd = "sl_data_req"}

\* C11: when set_entity_status is called on an unauthenticated session and
\* the login exchange fails, the call ends with an authentication error (not
\* with a False result), no set-status request has been handed to the
\* transport, and the session is still unauthenticated.
C11_AuthErrorPropagates ==
    (ev.kind = "login" /\ op.name = "set_entity_status" /\ ~StructurallyValid(ev.resp)) =>
        /\ pc = "idle"
        /\ result.kind = "CameDomoticAuthError"
        /\ DataRequestsIn(sent) = {}
        /\ ~is_authenticated

C11_Witness ==
    /\ ev.kind = "login"
    /\ op.name = "set_entity_status"
    /\ op.entity_type = "Light"
    /\ ev.resp.kind = "request_exception"
    /\ result.kind = "CameDomoticAuthError"
    /\ sent = <<LoginRequest>>

\* C12: when get_features finds its cache empty and the feature-list request
\* fails at the transport, the call raises a request error; when the response
\* carries a non-zero sl_data_ack_reason, the call raises a bad-acknowledgement
\* error carrying that reason; in neither case is a set returned.
C12_GetFeaturesPropagates ==
    (ev.kind = "features" /\ op.name = "get_features") =>
        /\ ev.resp.kind \in {"request_exception", "bad_status"} =>
                (pc = "idle" /\ result = Raises("CameDomoticRequestError"))
        /\ (ev.resp.kind = "ok" /\ ev.resp.reason # 0) =>
                (pc = "idle" /\ result = RaisesBadAck(ev.resp.reason))

C12_Witness ==
    /\ ev.kind = "features"
    /\ op.name = "get_features"
    /\ ev.resp.kind = "ok"
    /\ ev.resp.reason = 3
    /\ result.kind = "CameDomoticBadAckError"
    /\ result.code = 3

\* C13: when an entity-list request of get_entities fails at the transport
\* the call raises a request error, and when it is answered with a non-zero
\* sl_data_ack_reason the call raises a bad-acknowledgement error; no set is
\* returned.
C13_GetEntitiesPropagates ==
    (ev.kind = "entity_list" /\ op.name = "get_entities") =>
        /\ ev.resp.kind \in {"request_exception", "bad_status"} =>
                (pc = "idle" /\ result = Raises("CameDomoticRequestError"))
        /\ (ev.resp.kind = "ok" /\ ev.resp.reason # 0) =>
                (pc = "idle" /\ result = RaisesBadAck(ev.resp.reason))

\* C14: a get_entities call in which the entity-list request of some feature
\* failed leaves the entity cache empty: the cache is never populated with
\* the results of only the features whose requests succeeded.
C14_CacheAllOrNothing ==
    (pc = "idle" /\ op.name = "get_entities" /\ fetch_failed) => entities = {}

\* get_entities is handling a feature that maps to no entity-list command
HandlingUnsupported ==
    /\ op.name = "get_entities"
    /\ pc = "entity_list" \/ (pc = "login" /\ ret = "entity_list")
    /\ cur # ""
    /\ ~Listable(cur)

FetchErrors == {"CameDomoticAuthError", "CameDomoticRequestError", "CameDomoticBadAckError"}

\* C15: while get_entities handles an unsupported feature of the list, no
\* data request is handed to the transport and the call does not end with an
\* error; when the unsupported feature is the last one handled, what was
\* collected for the other features is cached.  (Calls in which a request
\* of another feature failed, and sessions granted no lifetime by the login,
\* are left out: see C13 and C3.)
C15_UnsupportedFeatureSkipped ==
    [][(HandlingUnsupported /\ todo = {} /\ ev'.kind # "tick"
            /\ ~fetch_failed /\ login_timeout > SafetyMargin) =>
        /\ DataRequestsIn(sent') = DataRequestsIn(sent)
        /\ result'.kind \notin FetchErrors
        /\ pc' = "idle" => entities' = acc]_vars

\* get_features is called while the features cache holds something
CachedFeaturesCall == ev'.kind = "call" /\ op'.name = "get_features" /\ features # {}

FailedFeaturesFetch ==
    /\ op'.name = "get_features"
    /\ \/ ev'.kind = "login" /\ ~StructurallyValid(ev'.resp)
       \/ ev'.kind = "features" /\ ~(ev'.resp.kind = "ok" /\ ev'.resp.reason = 0)

\* C17: a get_features call whose fetch fails ends with an error and leaves
\* the features cache exactly as it was before the exchange.
C17_FailedFetchKeepsFeatures ==
    [][FailedFeaturesFetch =>
        (pc' = "idle" /\ result'.kind \in FetchErrors /\ features' = features)]_vars

\* the response lacked its list: the identity fields were stored, the cache was not
C17_Witness ==
    /\ ev.kind = "features"
    /\ op.name = "get_features"
    /\ ev.resp.kind = "missing_list"
    /\ identity.keycode = "K1"
    /\ features = {}
    /\ result.kind = "CameDomoticRequestError"

\* C18: get_entities called with a supported entity type while the entity
\* cache holds something hands nothing to the transport, returns exactly the
\* cached entities whose class is the one mapped to the type, and leaves the
\* cache unchanged.
C18_ClientSideFilter ==
    [][(ev'.kind = "call" /\ op'.name = "get_entities" /\ entities # {}
            /\ op'.entity_type \in EntityTypeNames) =>
        /\ pc' = "idle"
        /\ sent' = <<>>
        /\ result' = ReturnsSet({e \in entities :
                                    e.cls = EntityType2Class(op'.entity_type)})
        /\ entities' = entities]_vars

\* lights were asked for from a cache that also holds an opening
C18_Witness ==
    /\ ev.kind = "call"
    /\ op.name = "get_entities"
    /\ op.entity_type = "LIGHTS"
    /\ \E e \in entities : e.cls = "Opening"
    /\ result.kind = "set"
    /\ result.set # {}
    /\ \A e \in result.set : e.cls = "Light"
    /\ sent = <<>>

\* the listed features that map to an entity-list command
SupportedFeatures == {f \in features : Listable(f.name)}

IsDataRequest(r) == r.sl_cmd = "sl_data_req"

\* the requests s is one feature-list request followed by exactly one
\* entity-list request for each supported feature
FeatureListThenEntityLists(s) ==
    /\ Len(s) = 1 + Cardinality(SupportedFeatures)
    /\ s[1].cmd_name = "feature_list_req"
    /\ {s[i].cmd_name : i \in 2..Len(s)} =
            {EntityTypeValue(Upper(f.name)) : f \in SupportedFeatures}

\* what get_entities has collected so far, or has returned
Collected == IF pc = "idle" THEN result.set ELSE acc

\* every step of the call adds to the collection exactly the entities built
\* from the array of its response
CollectsArrays ==
    /\ ev'.kind = "features" => Collected' = {}
    /\ ev'.kind = "entity_list" =>
            Collected' = Collected \cup
                {EntityFromJson(EntityType2Class(Upper(cur)), ev'.resp.array[i]) :
                    i \in 1..Len(ev'.resp.array)}
    /\ (ev'.kind \in {"entity_skip", "login", "tick"} /\ sent # <<>>) =>
            Collected' = Collected

\* the requests of the finished get_entities call are a login request first
\* and, login requests aside, the feature-list request followed by the
\* entity-list requests; the call has returned a set
LoginThenDataRequests ==
    (pc = "idle" /\ op.name = "get_entities") =>
        /\ sent[1] = LoginRequest
        /\ FeatureListThenEntityLists(SelectSeq(sent, IsDataRequest))
        /\ Len(SelectSeq(sent, IsDataRequest)) + LoginsIn(sent) = Len(sent)
        /\ result.kind = "set"

\* C19 as claimed: get_entities() on a freshly constructed facade, all of
\* whose requests are answered successfully, hands to the transport exactly
\* one login request (no login exchange follows the first one), then one
\* feature-list request, then one entity-list request per supported listed
\* feature and nothing else, and returns exactly the entities built from
\* the arrays received.  (A login that follows one which granted the session
\* no lifetime is left out: see C3.)
C19_EndToEndSequence ==
    /\ []LoginThenDataRequests
    /\ [][/\ CollectsArrays
          /\ (ev'.kind = "login" /\ login_timeout > SafetyMargin) => sent = <<>>]_vars

\* C19 as amended: the call hands to the transport a login request first,
\* a further login request only at a guard that finds the session no longer
\* authenticated, and otherwise one feature-list request followed by one
\* entity-list request per supported listed feature; it returns exactly the
\* entities built from the arrays received.
C19_EndToEndWithRelogin ==
    /\ []LoginThenDataRequests
    /\ [][/\ CollectsArrays
          /\ (ev'.kind = "login" /\ sent # <<>>) => ~is_authenticated]_vars

\* the session lapsed during the call: two logins, and both entity lists returned
C19_Witness ==
    /\ pc = "idle"
    /\ op.name = "get_entities"
    /\ login_timeout > SafetyMargin
    /\ LoginsIn(sent) = 2
    /\ Len(SelectSeq(sent, IsDataRequest)) = 3
    /\ \E e \in result.set : e.cls = "Light"
    /\ \E e \in result.set : e.cls = "Opening"

\* C20: a get_entities call whose entity_type is not a supported identifier
\* ends with a type/validation error, whatever the cache and the session.
C20_InvalidTypeRejected ==
    (pc = "idle" /\ op.name = "get_entities"
        /\ op.entity_type \notin EntityTypeNames \cup {"None"}) =>
        result.kind \in {"ValueError", "TypeError"}

\* the request handed to the transport by the step just taken
LastRequest == sent[Len(sent)]

\* C21: a set_entity_status call whose entity_type is not Light, Opening or
\* Scenario ends by returning False, whatever the session state, and no data
\* request has been handed to the transport.
C21_UnsupportedTypeReturnsFalse ==
    (pc = "idle" /\ op.name = "set_entity_status" /\ op.entity_type \notin SwitchClasses) =>
        (result.kind = "False" /\ DataRequestsIn(sent) = {})

\* the body of set_entity_status is about to run for an actionable type
ActionableBody == pc = "set_status" /\ op.entity_type \in SwitchClasses /\ ev'.kind # "tick"

\* C22: the body of set_entity_status, run for an actionable entity_type
\* with an entity_id that is not an integer or a status that is not an
\* EntityStatus, raises a type error and hands nothing to the transport.
C22_InvalidArgumentsRaiseTypeError ==
    [][(ActionableBody /\ (op.entity_id = StrValue \/ op.status = StrValue)) =>
        (pc' = "idle" /\ result'.kind = "TypeError" /\ sent' = sent)]_vars

\* C23: every set-status request is a data request whose cmd_name is
\* light_switch_req for Light, opening_move_req for Opening and
\* scenario_activation_req for Scenario; its id and act_id are the target
\* entity_id, its wanted_status the value of the requested status, its
\* client and sl_client_id the session id.
C23_SetStatusRequestFields ==
    (ev.kind = "set_status") =>
        /\ LastRequest.sl_cmd = "sl_data_req"
        /\ LastRequest.cmd_name =
                (CASE op.entity_type = "Light" -> "light_switch_req"
                   [] op.entity_type = "Opening" -> "opening_move_req"
                   [] op.entity_type = "Scenario" -> "scenario_activation_req"
                   [] OTHER -> "none")
        /\ LastRequest.id = op.entity_id
        /\ LastRequest.act_id = op.entity_id
        /\ LastRequest.wanted_status = op.status
        /\ LastRequest.client = session_id
        /\ LastRequest.sl_client_id = session_id
        /\ session_id # ""

C23_Witness ==
    /\ ev.kind = "set_status"
    /\ op.entity_type = "Scenario"
    /\ LastRequest.cmd_name = "scenario_activation_req"
    /\ LastRequest.id = 1
    /\ LastRequest.act_id = 1
    /\ LastRequest.wanted_status = 1
    /\ LastRequest.client = "s2"
    /\ result.kind = "True"

\* min(max(b, 0), 100)
Clamped(b) == IF b < 0 THEN 0 ELSE IF b > 100 THEN 100 ELSE b

\* the body of set_entity_status, run for an actionable type with a valid
\* status and a brightness that is an integer or None, hands its request to
\* the transport and returns a boolean
BrightnessNeverFails ==
    (ActionableBody /\ op.status # StrValue /\ op.brightness # StrValue) =>
        (ev'.kind = "set_status" /\ result'.kind \in {"True", "False"})

\* C24 as claimed: for every actionable kind the perc field of the request
\* is min(max(brightness, 0), 100) for an integer brightness and 100 for
\* None (or the default); no such brightness makes the call fail.
C24_BrightnessClamped ==
    [][/\ (ev'.kind = "set_status" /\ op.brightness # StrValue) =>
            sent'[Len(sent')].perc = (IF op.brightness = NoneValue
                                      THEN 100 ELSE Clamped(op.brightness))
       /\ BrightnessNeverFails]_vars

\* C24 as amended: for a Light the perc field of the request is
\* min(max(brightness, 0), 100) for an integer brightness and 100 for None
\* (or the default); for an Opening or a Scenario it is the brightness as
\* given; no such brightness makes the call fail.
C24_LightBrightnessClamped ==
    [][/\ (ev'.kind = "set_status" /\ op.brightness # StrValue) =>
            sent'[Len(sent')].perc =
                (IF op.entity_type = "Light"
                 THEN IF op.brightness = NoneValue THEN 100 ELSE Clamped(op.brightness)
                 ELSE op.brightness)
       /\ BrightnessNeverFails]_vars

C24_Witness ==
    /\ ev.kind = "set_status"
    /\ op.entity_type = "Light"
    /\ op.brightness = 150
    /\ LastRequest.perc = 100
    /\ result.kind = "True"

\* the session counts as authenticated: the id is set and the clock is
\* strictly before the expiration
SessionLive == session_id # "" /\ now < session_expiration_timestamp

LogoutAcknowledged(resp) ==
    /\ resp.kind = "ok"
    /\ resp.sl_cmd = "sl_logout_ack"
    /\ resp.ack_reason = 0
    /\ resp.reason = 0

\* C26: right after a logout exchange acknowledged with sl_logout_ack and
\* reasons zero, session_id is empty, the expiration is not in the future and
\* is_authenticated is false; an authenticated operation called while
\* session_id is empty starts with a login exchange.
C26_LogoutResetsSession ==
    /\ []((ev.kind = "logout" /\ LogoutAcknowledged(ev.resp)) =>
            /\ session_id = ""
            /\ session_expiration_timestamp <= now
            /\ ~is_authenticated)
    /\ [][(ev'.kind = "call" /\ op'.name = "set_entity_status" /\ session_id = "") =>
            pc' = "login"]_vars

\* a session was opened and closed, and the next operation is about to log in
C26_Witness ==
    /\ pc = "login"
    /\ op.name = "set_entity_status"
    /\ session_id = ""
    /\ login_timeout > SafetyMargin
    /\ session_expiration_timestamp = now

\* C27: a logout exchange that is not acknowledged (failure of the
\* transport, non-zero reason, other sl_cmd, body lacking keys) leaves
\* session_id and the expiration as they were; _logout then returns False.
C27_FailedLogoutKeepsSession ==
    [][(ev'.kind = "logout" /\ ~LogoutAcknowledged(ev'.resp)) =>
        /\ pc' = "idle"
        /\ op.name = "_logout" => result'.kind = "False"
        /\ session_id' = session_id
        /\ session_expiration_timestamp' = session_expiration_timestamp]_vars

C27_Witness ==
    /\ ev.kind = "logout"
    /\ op.name = "_logout"
    /\ ev.resp.kind = "request_exception"
    /\ result.kind = "False"
    /\ is_authenticated

RequestErrors == {"CameDomoticRequestError", "CameDomoticBadAckError"}

\* an identity property is read
PropertyRead == ev'.kind = "call" /\ op'.name = "property"

SameTypeAndId == cmp.a.cls = cmp.b.cls /\ cmp.a.id = cmp.b.id

PrintsStatus(e) == e.cls # "DigitalInput"

TypeAndIdPresent(members, item) ==
    \E x \in members : x.cls = item.cls /\ x.id = item.id

EqualPresent(members, item) == \E x \in members : EntityEq(x, item)

IsInteger(v) == v # NoneValue /\ v # StrValue

Sends == Len(sent') = Len(sent) + 1

\* C33: every accepted login leaves the sequence counter at 0, and the first
\* data request handed to the transport after it carries cseq 1.
C33_FirstRequestCarriesOne ==
    /\ [][(Sends /\ ev'.kind = "login" /\ LoginAccepted(ev'.resp)) => cseq' = 0]_vars
    /\ [][(Sends /\ ev'.kind \in DataExchanges /\ trail.hi = 0)
            => sent'[Len(sent')].cseq = 1]_vars

\* C34 as claimed: among the data requests handed to the transport since the
\* last accepted login, each carries a cseq greater than that of every
\* earlier one, whether the earlier sends succeeded or failed.
C34_CseqStrictlyIncreasing ==
    [][(Sends /\ ev'.kind \in DataExchanges) => sent'[Len(sent')].cseq > trail.hi]_vars

\* C34 as amended: each data request carries a cseq not smaller than that of
\* every earlier request of the session, and greater unless the exchange of
\* the data request before it failed (no JSON body with the expected keys
\* came back), in which case it carries a cseq not smaller than that one.
C34_CseqIncreasingButForFailedSends ==
    [][(Sends /\ ev'.kind \in DataExchanges)
        => /\ sent'[Len(sent')].cseq >= trail.hi
           /\ ~trail.failed => sent'[Len(sent')].cseq > trail.hi]_vars

\* a data request carries the cseq of the request before it, whose exchange
\* failed and was rolled back
C34_Witness ==
    /\ ev.kind \in DataExchanges
    /\ IsDataRequest(sent[Len(sent)])
    /\ sent[Len(sent)].cseq = trail.hi
    /\ trail.again

\* C35: the authentication guard lets an operation proceed to the step that
\* hands over a data request only with the session authenticated, so every
\* data request is sent after a guard that completed with is_authenticated
\* true.
C35_DataRequestsAuthenticated ==
    [][(pc' \in DataExchanges /\ pc' # pc) => is_authenticated']_vars

\* C36: the client and sl_client_id fields of every data request handed to
\* the transport hold the session id that is current at that moment, which is
\* not empty: never the id of a session that a login of the same operation
\* has replaced.
C36_RequestCarriesCurrentSession ==
    [][(Sends /\ ev'.kind \in DataExchanges)
        => /\ session_id # ""
           /\ sent'[Len(sent')].client = session_id
           /\ sent'[Len(sent')].sl_client_id = session_id]_vars

\* within one get_entities call a data request was sent under one session, a
\* login replaced that session, and the data request sent after it carries
\* the new id
C36_Witness ==
    /\ ev.kind = "entity_list"
    /\ Len(sent) >= 3
    /\ IsDataRequest(sent[1])
    /\ sent[1].client \notin {"", session_id}
    /\ \E i \in 2..(Len(sent) - 1) : sent[i].sl_cmd = "sl_registration_req"
    /\ LastRequest.client = session_id

\* C37: a features fetch leaves the five identity fields either as they were
\* or all taken from the response of that fetch; no response leaves only
\* some of them updated.
C37_IdentityUpdatedAtomically ==
    [][identity' = identity \/ (ev'.kind = "features" /\ identity' = IdentityOf(ev'.resp))]_vars

\* C38: no step of a set_entity_status call changes the features cache, the
\* identity fields or the entity cache, whatever the outcome; a get_entities
\* call after it, finding the cache filled, returns entities of the cache as
\* they were stored.
C38_SetStatusLeavesCaches ==
    /\ [][op'.name = "set_entity_status" => UNCHANGED <<features, identity, entities>>]_vars
    /\ [][(op'.name = "get_entities" /\ pc = "idle" /\ entities # {} /\ result'.kind = "set")
            => (result'.set \subseteq entities /\ entities' = entities)]_vars

\* a light that the cache holds as on has been switched off: the call
\* returned True and the cache still holds it as on
C38_Witness ==
    /\ pc = "idle"
    /\ op.name = "set_entity_status"
    /\ op.status = 0
    /\ result.kind = "True"
    /\ \E e \in entities : e.cls = op.entity_type /\ e.id = op.entity_id /\ e.status = 1

\* the entity_type of the get_entities call c is not a supported identifier
UnsupportedFilter(c) ==
    c.name = "get_entities" /\ c.entity_type \notin EntityTypeNames \cup {"None"}

\* C39: during a get_entities call with an unsupported entity_type nothing
\* is handed to the transport, and the session fields and the caches
\* stay as they were, even when the entity cache is empty.
C39_ValidationBeforeNetwork ==
    /\ [](UnsupportedFilter(op) => sent = <<>>)
    /\ [][UnsupportedFilter(op') => UNCHANGED <<session, caches>>]_vars

\* C40: once dispose has returned the session is not authenticated, whether
\* the logout exchange succeeded or failed.
C40_DisposedSessionClosed ==
    (pc = "idle" /\ op.name = "dispose") => ~is_authenticated

====
